---- MODULE Spec2Model ----
(***************************************************************************)
(* Model of the MovieRecommender engine (src/recommender.py) and of the    *)
(* web layer that calls it (src/app.py).                                   *)
(*                                                                         *)
(* Conventions                                                             *)
(*  - a Python str is a sequence of one-character strings, so that         *)
(*    strip(), lower() and startswith() are computed, not assumed;         *)
(*  - None (and any other non-str value) is the token None;                *)
(*  - a dict key that may be absent is an option: <<>> (absent) or <<v>>;  *)
(*  - rating is in tenths, score and the random bonus in hundredths;       *)
(*  - a file is [st, data]: st is "missing", "malformed" (no JSON, also a  *)
(*    write cut short), "notlist" (a JSON value that is no list) or "list". *)
(***************************************************************************)
EXTENDS Integers, Sequences, FiniteSets, TLC

VARIABLES
  movies,       \* self.movies: the in-memory catalog
  catalogFile,  \* the file self.data_file
  historyFile,  \* the file self.history_file
  ratingsFile,  \* the file self.ratings_file
  log,          \* number of lines log_error has appended to log.txt
  now,          \* the clock datetime.now() reads, one tick per operation
  request,      \* the arguments of the last call
  io,           \* how the file accesses of the last call went
  stage,        \* the stage of recommend that produced `candidates` (1..4)
  candidates,   \* recommend's local `candidates` before the sort
  pool,         \* recommend's local `pool`
  picks,        \* the positions of `pool` that make up `selected`
  result,       \* outcome of the last call: what it returned or raised
  th            \* the request threads of the web layer (position and locals)

vars == <<movies, catalogFile, historyFile, ratingsFile, log, now, request,
          io, stage, candidates, pool, picks, result, th>>

----------------------------------------------------------------------------
(* Strings *)

None == <<"None">>

Space == " "

\* str.lower() on the characters the model uses
LowerChar(c) ==
  CASE c = "A" -> "a" [] c = "B" -> "b" [] c = "C" -> "c" [] c = "D" -> "d"
    [] c = "H" -> "h" [] c = "N" -> "n" [] c = "P" -> "p" [] c = "R" -> "r"
    [] c = "S" -> "s" [] c = "T" -> "t" [] c = "U" -> "u"
    [] OTHER -> c

Lower(s) == [i \in 1..Len(s) |-> LowerChar(s[i])]

RECURSIVE LStrip(_)
LStrip(s) == IF s # <<>> /\ Head(s) = Space THEN LStrip(Tail(s)) ELSE s

RECURSIVE RStrip(_)
RStrip(s) ==
  IF s # <<>> /\ s[Len(s)] = Space THEN RStrip(SubSeq(s, 1, Len(s) - 1)) ELSE s

\* str.strip()
Strip(s) == RStrip(LStrip(s))

\* str.startswith(p)
StartsWith(s, p) == Len(s) >= Len(p) /\ SubSeq(s, 1, Len(p)) = p

\* MovieRecommender._normalize_string
normalize_string(text) == IF text = None THEN <<>> ELSE Lower(Strip(text))

hollywood == <<"h","o","l","l","y","w","o","o","d">>
bollywood == <<"b","o","l","l","y","w","o","o","d">>
drama == <<"d","r","a","m","a">>
comedy == <<"c","o","m","e","d","y">>

top_rated == <<"t","o","p"," ","r","a","t","e","d">>
popular == <<"p","o","p","u","l","a","r">>
underrated == <<"u","n","d","e","r","r","a","t","e","d">>
new_release == <<"n","e","w"," ","r","e","l","e","a","s","e">>
classic == <<"c","l","a","s","s","i","c">>
short_movie == <<"s","h","o","r","t"," ","m","o","v","i","e">>

\* the same word as a form or a catalog may spell it
Cap(s) ==
  LET up == CASE s[1] = "h" -> "H" [] s[1] = "b" -> "B" [] s[1] = "d" -> "D"
              [] s[1] = "c" -> "C" [] s[1] = "t" -> "T" [] s[1] = "p" -> "P"
              [] s[1] = "u" -> "U" [] s[1] = "n" -> "N" [] s[1] = "s" -> "S"
              [] s[1] = "a" -> "A" [] OTHER -> s[1]
  IN  <<up>> \o Tail(s)

Padded(s) == <<Space>> \o s \o <<Space>>

----------------------------------------------------------------------------
(* Movie records *)

MovieKeys ==
  {"title", "industry", "genres", "rating", "popularity", "year",
   "duration_minutes"}

\* dict.get(key, default)
Get(m, key, default) == IF m[key] = <<>> THEN default ELSE m[key][1]

DefaultRating == 70
DefaultPopularity == 5
DefaultYear == 2010
DefaultDuration == 120

Movie(t, ind, gs, r, p, y, d) ==
  [title |-> t, industry |-> ind, genres |-> gs, rating |-> r,
   popularity |-> p, year |-> y, duration_minutes |-> d]

\* movie.copy() / {**m} with the key "score" set
Scored(m, s) ==
  [k \in DOMAIN m \cup {"score"} |-> IF k = "score" THEN s ELSE m[k]]

\* a scored candidate without its score: the catalog record it was copied from
Unscored(c) == [k \in MovieKeys |-> c[k]]

----------------------------------------------------------------------------
(* Pure helpers of MovieRecommender *)

Contains(seq, x) == \E i \in 1..Len(seq) : seq[i] = x

\* Python truthiness of a str-or-None value
Truthy(v) == v # None /\ v # <<>>

\* [self._normalize_string(g) for g in movie.get("genres", [])]
NormGenres(movie) ==
  LET gs == Get(movie, "genres", <<>>)
  IN  [i \in 1..Len(gs) |-> normalize_string(gs[i])]

\* mutant of matches_type: the label is compared as the form sent it
matches_type_Raw(movie, movie_type) ==
  LET mt == movie_type
      rating == Get(movie, "rating", DefaultRating)
      popularity == Get(movie, "popularity", DefaultPopularity)
      year == Get(movie, "year", DefaultYear)
      duration == Get(movie, "duration_minutes", DefaultDuration)
  IN  CASE mt = top_rated -> rating >= 80
        [] mt = popular -> popularity >= 8
        [] mt = underrated -> rating >= 70 /\ popularity <= 6
        [] mt = new_release -> year >= 2020
        [] mt = classic -> year <= 2005
        [] StartsWith(mt, short_movie) -> duration < 120
        [] OTHER -> TRUE

\* MovieRecommender._matches_type
matches_type(movie, movie_type) ==
  LET mt == normalize_string(movie_type)
      rating == Get(movie, "rating", DefaultRating)
      popularity == Get(movie, "popularity", DefaultPopularity)
      year == Get(movie, "year", DefaultYear)
      duration == Get(movie, "duration_minutes", DefaultDuration)
  IN  CASE mt = top_rated -> rating >= 80
        [] mt = popular -> popularity >= 8
        [] mt = underrated -> rating >= 70 /\ popularity <= 6
        [] mt = new_release -> year >= 2020
        [] mt = classic -> year <= 2005
        [] StartsWith(mt, short_movie) -> duration < 120
        [] OTHER -> TRUE

\* MovieRecommender._score_movie, in hundredths; random_bonus is the draw
\* random.uniform(0, 1) as it shows after round(score, 2)
score_movie(movie, random_bonus) ==
  6 * Get(movie, "rating", DefaultRating)
    + 40 * Get(movie, "popularity", DefaultPopularity) + random_bonus

\* MovieRecommender._filter_movies; bonus[i] is the draw for self.movies[i]
filter_movies(ms, genres, industry_kw, movie_type, bonus) ==
  LET industry == normalize_string(industry_kw)
      normalized_genres ==
        [i \in 1..Len(genres) |-> normalize_string(genres[i])]
      skipped(movie) ==
        \/ industry # <<>>
             /\ industry # normalize_string(Get(movie, "industry", <<>>))
        \/ normalized_genres # <<>>
             /\ ~ \A i \in 1..Len(normalized_genres) :
                    Contains(NormGenres(movie), normalized_genres[i])
        \/ Truthy(movie_type) /\ ~ matches_type(movie, movie_type)
      results[i \in 0..Len(ms)] ==
        IF i = 0 THEN <<>>
        ELSE IF skipped(ms[i]) THEN results[i - 1]
        ELSE Append(results[i - 1],
                    Scored(ms[i], score_movie(ms[i], bonus[i])))
  IN  results[Len(ms)]

\* mutant of recursive_genre_search: the match goes behind the rest
RECURSIVE recursive_genre_search_Reversed(_, _, _)
recursive_genre_search_Reversed(ms, target_genre, index) ==
  IF index > Len(ms) THEN <<>>
  ELSE LET rest == recursive_genre_search_Reversed(ms, target_genre, index + 1)
       IN  IF Contains(NormGenres(ms[index]), normalize_string(target_genre))
           THEN rest \o <<index>>
           ELSE rest

\* MovieRecommender._recursive_genre_search, as positions of `ms`
RECURSIVE recursive_genre_search(_, _, _)
recursive_genre_search(ms, target_genre, index) ==
  IF index > Len(ms) THEN <<>>
  ELSE LET rest == recursive_genre_search(ms, target_genre, index + 1)
       IN  IF Contains(NormGenres(ms[index]), normalize_string(target_genre))
           THEN <<index>> \o rest
           ELSE rest

\* the candidates each step of recommend computes: 1 strict, 2 without the
\* movie type, 3 the recursive genre search, 4 everything
StageCandidates(ms, n, norm_ind, norm_gen, movie_type, bonus) ==
  CASE n = 1 -> filter_movies(ms, <<norm_gen>>, norm_ind, movie_type, bonus)
    [] n = 2 -> filter_movies(ms, <<norm_gen>>, norm_ind, None, bonus)
    [] n = 3 ->
         LET rec == recursive_genre_search(ms, norm_gen, 1)
         IN  [i \in 1..Len(rec) |->
                Scored(ms[rec[i]], score_movie(ms[rec[i]], bonus[rec[i]]))]
    [] OTHER ->
         [i \in 1..Len(ms) |-> Scored(ms[i], score_movie(ms[i], bonus[i]))]

\* recommend, steps 1-4: each `if not candidates` moves on to the next step
UsedStage(ms, norm_ind, norm_gen, movie_type, bonus) ==
  IF StageCandidates(ms, 1, norm_ind, norm_gen, movie_type, bonus) # <<>>
  THEN 1
  ELSE IF StageCandidates(ms, 2, norm_ind, norm_gen, movie_type, bonus) # <<>>
  THEN 2
  ELSE IF StageCandidates(ms, 3, norm_ind, norm_gen, movie_type, bonus) # <<>>
  THEN 3
  ELSE 4

\* mutant of InsertByScore: x goes ahead of the elements with its own score
InsertByScore_Unstable(sorted, x) ==
  LET before == {i \in 1..Len(sorted) : sorted[i].score > x.score}
      k == IF before = {} THEN 0
           ELSE CHOOSE i \in before : \A j \in before : j <= i
  IN  SubSeq(sorted, 1, k) \o <<x>> \o SubSeq(sorted, k + 1, Len(sorted))

\* one step of the stable sort: x goes behind every element scoring >= x
InsertByScore(sorted, x) ==
  LET before == {i \in 1..Len(sorted) : sorted[i].score >= x.score}
      k == IF before = {} THEN 0
           ELSE CHOOSE i \in before : \A j \in before : j <= i
  IN  SubSeq(sorted, 1, k) \o <<x>> \o SubSeq(sorted, k + 1, Len(sorted))

\* candidates.sort(key=score, reverse=True): stable, highest score first
SortByScore(cs) ==
  LET sorted[i \in 0..Len(cs)] ==
        IF i = 0 THEN <<>> ELSE InsertByScore(sorted[i - 1], cs[i])
  IN  sorted[Len(cs)]

PoolSize == 10

\* mutant of TakePool: candidates[1:10]
TakePool_FromSecond(sorted) ==
  SubSeq(sorted, 2, IF Len(sorted) < PoolSize THEN Len(sorted) ELSE PoolSize)

\* candidates[:10]
TakePool(sorted) ==
  SubSeq(sorted, 1, IF Len(sorted) < PoolSize THEN Len(sorted) ELSE PoolSize)

\* random.sample(pool, k): every sequence of k distinct positions
Sample(n, k) ==
  {p \in [1..k -> 1..n] : \A i, j \in 1..k : i # j => p[i] # p[j]}

\* selected = random.sample(pool, top_n) if len(pool) > top_n else pool
Selections(pl, top_n) ==
  IF Len(pl) > top_n THEN Sample(Len(pl), top_n)
  ELSE {[i \in 1..Len(pl) |-> i]}

Selected(pl, pk) == [i \in 1..Len(pk) |-> pl[pk[i]]]

----------------------------------------------------------------------------
(* Files *)

Missing == [st |-> "missing", data |-> <<>>]
Malformed == [st |-> "malformed", data |-> <<>>]
NotList == [st |-> "notlist", data |-> <<>>]
ListFile(data) == [st |-> "list", data |-> data]

ReadOutcomes == {"ok", "oserror"}
WriteOutcomes == {"ok", "denied", "cut"}

\* mutant of load_json_list: what the file holds is never read
load_json_list_Fresh(file, rd) == [data |-> <<>>, logged |-> 0]

\* BaseRecommender.load_json_list: the list returned, and the lines logged
load_json_list(file, rd) ==
  IF file.st = "missing" THEN [data |-> <<>>, logged |-> 0]
  ELSE IF rd # "ok" \/ file.st = "malformed" THEN [data |-> <<>>, logged |-> 1]
  ELSE IF file.st = "list" THEN [data |-> file.data, logged |-> 0]
  ELSE [data |-> <<>>, logged |-> 0]

\* mutant of save_json_list: a write that succeeds is never flushed
save_json_list_Unflushed(file, data_list, wr) ==
  CASE wr = "cut" -> Malformed
    [] OTHER -> file

\* BaseRecommender.save_json_list: the file afterwards. open() may be refused
\* ("denied": the file is untouched) or the write may fail after open() has
\* truncated the file ("cut")
save_json_list(file, data_list, wr) ==
  CASE wr = "ok" -> ListFile(data_list)
    [] wr = "denied" -> file
    [] OTHER -> Malformed

\* the lines save_json_list logs
SaveLogged(wr) == IF wr = "ok" THEN 0 ELSE 1

\* how a file access went; "none" when it was not made (load_json_list does
\* not open a file that does not exist)
ReadMade(file, rd) == IF file.st = "missing" THEN "none" ELSE rd

----------------------------------------------------------------------------
(* recommend *)

NoResult == [kind |-> "none", value |-> <<>>, error |-> ""]
Returned(v) == [kind |-> "return", value |-> v, error |-> ""]
Raised(e) == [kind |-> "raise", value |-> <<>>, error |-> e]

\* the entry _log_history_full builds
HistoryEntry(timestamp, industry, genre, movie_type, selected_movies) ==
  [timestamp |-> timestamp, industry |-> industry, genre |-> genre,
   movie_type |-> movie_type, recommended |-> selected_movies]

\* {m["title"] for m in selected_movies} raises KeyError on a missing key
TitlesRaise(selected_movies) ==
  \E i \in 1..Len(selected_movies) : selected_movies[i].title = <<>>

TitlesSelected(selected_movies) ==
  {selected_movies[i].title[1] : i \in 1..Len(selected_movies)}

\* mutant of Bump: the default of a missing popularity is 0
Bump_FromZero(movie) ==
  [movie EXCEPT !.popularity = <<Get(movie, "popularity", 0) + 1>>]

\* movie["popularity"] = movie.get("popularity", 5) + 1
Bump(movie) ==
  [movie EXCEPT !.popularity = <<Get(movie, "popularity", DefaultPopularity) + 1>>]

\* the loop of _log_history_full over self.movies
BumpPopularity(ms, titles_selected) ==
  [i \in 1..Len(ms) |->
     IF Get(ms[i], "title", None) \in titles_selected
     THEN Bump(ms[i]) ELSE ms[i]]

\* MovieRecommender._log_history_full
log_history_full(industry, genre, movie_type, selected_movies, hr, hw, cw) ==
  LET loaded == load_json_list(historyFile, hr)
  IN  /\ historyFile' =
           save_json_list(
             historyFile,
             Append(loaded.data,
                    HistoryEntry(now, industry, genre, movie_type,
                                 selected_movies)),
             hw)
      /\ IF TitlesRaise(selected_movies)
         THEN /\ UNCHANGED <<movies, catalogFile>>
              /\ log' = log + loaded.logged + SaveLogged(hw)
         ELSE /\ movies' =
                   BumpPopularity(movies, TitlesSelected(selected_movies))
              /\ catalogFile' = save_json_list(catalogFile, movies', cw)
              /\ log' = log + loaded.logged + SaveLogged(hw) + SaveLogged(cw)

\* MovieRecommender.recommend, called with the draws of the random module
\* (bonus, and the sample among Selections) and the outcome of each file access
recommend(industry, genre, movie_type, top_n, bonus, hr, hw, cw) ==
  /\ request' = [industry |-> industry, genre |-> genre,
                 movie_type |-> movie_type, top_n |-> top_n]
  /\ stage' = UsedStage(movies, normalize_string(industry),
                        normalize_string(genre), movie_type, bonus)
  /\ candidates' =
       StageCandidates(movies, stage', normalize_string(industry),
                       normalize_string(genre), movie_type, bonus)
  /\ pool' = TakePool(SortByScore(candidates'))
  /\ now' = now + 1
  /\ UNCHANGED <<ratingsFile, th>>
  /\ IF Len(pool') > top_n /\ top_n < 0
     THEN \* random.sample raises ValueError on a negative size
          /\ picks' = <<>>
          /\ result' = Raised("ValueError")
          /\ io' = [hr |-> "none", hw |-> "none", cw |-> "none"]
          /\ UNCHANGED <<movies, catalogFile, historyFile, log>>
     ELSE /\ picks' \in Selections(pool', top_n)
          /\ io' = [hr |-> ReadMade(historyFile, hr), hw |-> hw,
                    cw |-> IF TitlesRaise(Selected(pool', picks'))
                           THEN "none" ELSE cw]
          /\ result' = IF TitlesRaise(Selected(pool', picks'))
                       THEN Raised("KeyError")
                       ELSE Returned(Selected(pool', picks'))
          /\ log_history_full(normalize_string(industry),
                              normalize_string(genre), movie_type,
                              Selected(pool', picks'), hr, hw, cw)

----------------------------------------------------------------------------
(* rate_movie *)

\* a value passed as `stars`: its Python type and, for a number, its value
\* in tenths
IntStars(n) == [type |-> "int", v |-> 10 * n]
FloatStars(tenths) == [type |-> "float", v |-> tenths]
StrStars == [type |-> "str", v |-> 0]
NoStars == [type |-> "NoneType", v |-> 0]

\* MovieRecommender.rate_movie, `title` a str; comparing a str or None with 1
\* raises TypeError
rate_movie(title, stars, rd, wr) ==
  /\ now' = now + 1
  /\ request' = [title |-> title, stars |-> stars]
  /\ UNCHANGED <<movies, catalogFile, historyFile, stage, candidates, pool,
                 picks, th>>
  /\ IF stars.type \notin {"int", "float"}
     THEN /\ result' = Raised("TypeError")
          /\ UNCHANGED <<ratingsFile, log, io>>
     ELSE IF stars.v < 10 \/ stars.v > 50
     THEN /\ result' = Returned(<<FALSE>>)
          /\ UNCHANGED <<ratingsFile, log, io>>
     ELSE LET loaded == load_json_list(ratingsFile, rd)
              entry == [title |-> Strip(title), stars |-> stars, time |-> now]
          IN  /\ ratingsFile' =
                   save_json_list(ratingsFile, Append(loaded.data, entry), wr)
              /\ log' = log + loaded.logged + SaveLogged(wr)
              /\ io' = [hr |-> ReadMade(ratingsFile, rd), hw |-> wr,
                        cw |-> "none"]
              /\ result' = Returned(<<TRUE>>)

----------------------------------------------------------------------------
(* Inputs *)

\* catalog records: a complete one, one without "popularity" and with
\* unnormalized spelling, one sharing its title with another, one with no title
MovieA ==
  Movie(<< <<"A">> >>, <<hollywood>>, << <<drama>> >>,
        <<90>>, <<9>>, <<2021>>, <<100>>)
MovieB ==
  Movie(<< <<"B">> >>, <<Padded(Cap(bollywood))>>, << <<Cap(comedy), drama>> >>,
        <<70>>, <<>>, <<2000>>, <<150>>)
MovieA2 ==
  Movie(<< <<"A">> >>, <<bollywood>>, << <<comedy>> >>,
        <<65>>, <<6>>, <<>>, <<>>)
MovieUntitled ==
  Movie(<<>>, <<Cap(hollywood)>>, << <<comedy>> >>,
        <<>>, <<8>>, <<2021>>, <<90>>)

Kinds == {MovieA, MovieB, MovieA2, MovieUntitled}

MaxCatalog == 2

Catalogs == UNION {[1..n -> Kinds] : n \in 0..MaxCatalog}

\* what the form of the web layer may send (request.form.get is None when absent)
Industries == {None, Cap(hollywood), Padded(bollywood)}
Genres == {None, Cap(drama), Padded(comedy)}
MovieTypes ==
  {None, Cap(top_rated), popular, Padded(underrated), new_release, classic,
   short_movie \o <<"s">>, <<"a","n","y">>}

DefaultTopN == 5
TopNs == {-1, 0, 1, DefaultTopN}

\* round(random.uniform(0, 1), 2) in hundredths
Bonuses == {0, 100}

----------------------------------------------------------------------------
(* Threads of the web layer *)

Threads == {1, 2}

\* a request thread: where it is in recommend, and the locals it holds there:
\* `selected`, the entry and the history list of _log_history_full, the
\* position of its loop over self.movies, and the popularity it read at each
\* position (0: none read)
IdleThread ==
  [pc |-> "idle", selected |-> <<>>, entry |-> <<>>, loaded |-> <<>>,
   history |-> <<>>, i |-> 0, seen |-> <<>>]

----------------------------------------------------------------------------
(* Specifications *)

\* MovieRecommender.__init__ on a catalog file, the other files as found
Construct(catalog_files, rd, history_files, ratings_files) ==
  /\ catalogFile \in catalog_files
  /\ LET loaded == load_json_list(catalogFile, rd)
     IN  movies = loaded.data /\ log = loaded.logged
  /\ historyFile \in history_files
  /\ ratingsFile \in ratings_files
  /\ now = 0
  /\ request = <<>>
  /\ io = [hr |-> "ok", hw |-> "ok", cw |-> "ok"]
  /\ stage = 0
  /\ candidates = <<>>
  /\ pool = <<>>
  /\ picks = <<>>
  /\ result = NoResult
  /\ th = [t \in Threads |-> IdleThread]

Init ==
  Construct({ListFile(c) : c \in Catalogs} \cup {Missing, Malformed, NotList},
            "ok", {Missing}, {Missing})

\* one request of the web layer served on a fresh recommender, the files
\* readable and writable
Recommend ==
  /\ result = NoResult
  /\ \E industry \in Industries, genre \in Genres, movie_type \in MovieTypes,
        top_n \in TopNs, bonus \in [1..Len(movies) -> Bonuses] :
       recommend(industry, genre, movie_type, top_n, bonus, "ok", "ok", "ok")

Next == Recommend

Spec == Init /\ [][Next]_vars

\* sequences of calls of one request, every file access going any way it can
MaxCalls == 2

IOCatalogs == {<<>>, <<MovieA>>, <<MovieA, MovieB>>, <<MovieUntitled>>}

\* the request of the web layer (top_n=5), one that samples, and one with a
\* negative top_n
IORequests ==
  {[industry |-> None, genre |-> Cap(drama), movie_type |-> None,
    top_n |-> DefaultTopN],
   [industry |-> Cap(hollywood), genre |-> None, movie_type |-> popular,
    top_n |-> 1],
   [industry |-> None, genre |-> None, movie_type |-> None, top_n |-> -1]}

InitIO ==
  Construct({ListFile(c) : c \in IOCatalogs}, "ok",
            {Missing, Malformed, NotList, ListFile(<<>>)}, {Missing})

RecommendIO ==
  /\ now < MaxCalls
  /\ \E r \in IORequests, hr \in ReadOutcomes, hw \in WriteOutcomes,
        cw \in WriteOutcomes :
       recommend(r.industry, r.genre, r.movie_type, r.top_n,
                 [i \in 1..Len(movies) |-> 0], hr, hw, cw)

NextIO == RecommendIO

SpecIO == InitIO /\ [][NextIO]_vars

\* catalogs longer than the pool: up to PoolSize + MaxBeyondPool movies of
\* one industry and genre, four ratings in turn, each with a title of its own
MaxBeyondPool == 1

Digit == <<"0", "1", "2", "3", "4", "5", "6", "7", "8", "9">>

PoolMovie(i) ==
  Movie(<< <<"M", Digit[(i \div 10) + 1], Digit[(i % 10) + 1]>> >>,
        <<hollywood>>, << <<drama>> >>, <<60 + 5 * (i % 4)>>, <<>>,
        <<2015>>, <<110>>)

LongCatalogs ==
  {[i \in 1..n |-> PoolMovie(i)] : n \in 0..(PoolSize + MaxBeyondPool)}

\* the draws of a call: at most MaxLucky movies draw the bonus 1.00, the
\* others 0.00
MaxLucky == 2

LuckyDraws(n) ==
  {[i \in 1..n |-> IF i \in lucky THEN 100 ELSE 0] :
     lucky \in {l \in SUBSET (1..n) : Cardinality(l) <= MaxLucky}}

PoolTopNs == {0, 1, 2, PoolSize, PoolSize + DefaultTopN}

InitPool == Construct({ListFile(c) : c \in LongCatalogs}, "ok", {Missing}, {Missing})

RecommendFromPool ==
  /\ result = NoResult
  /\ \E top_n \in PoolTopNs, bonus \in LuckyDraws(Len(movies)) :
       recommend(Cap(hollywood), drama, None, top_n, bonus, "ok", "ok", "ok")

NextPool == RecommendFromPool

SpecPool == InitPool /\ [][NextPool]_vars

\* two requests of the web layer served at once by threads that share the
\* recommender; a thread may be preempted between any two file accesses and
\* between the read and the write of a popularity
RaceCatalogs == {<<MovieA>>, <<MovieA, MovieB>>}

InitRace ==
  Construct({ListFile(c) : c \in RaceCatalogs}, "ok",
            {Missing, ListFile(<<>>)}, {Missing})

\* recommend up to the call of _log_history_full, and the entry it builds
Begin(t) ==
  /\ th[t].pc = "idle"
  /\ \E r \in IORequests :
       LET norm_ind == normalize_string(r.industry)
           norm_gen == normalize_string(r.genre)
           bonus == [i \in 1..Len(movies) |-> 0]
           n == UsedStage(movies, norm_ind, norm_gen, r.movie_type, bonus)
           pl == TakePool(SortByScore(
                   StageCandidates(movies, n, norm_ind, norm_gen,
                                   r.movie_type, bonus)))
       IN  \E pk \in Selections(pl, r.top_n) :  \* none when top_n < 0
             th' = [th EXCEPT
                      ![t].pc = "load",
                      ![t].selected = Selected(pl, pk),
                      ![t].entry =
                        <<HistoryEntry(now, norm_ind, norm_gen, r.movie_type,
                                       Selected(pl, pk))>>]
  /\ now' = now + 1
  /\ UNCHANGED <<movies, catalogFile, historyFile, ratingsFile, log, request,
                 io, stage, candidates, pool, picks, result>>

\* history = self.load_json_list(...); history.append(entry)
LoadHistory(t) ==
  /\ th[t].pc = "load"
  /\ LET loaded == load_json_list(historyFile, "ok")
     IN  /\ th' = [th EXCEPT ![t].pc = "save",
                             ![t].loaded = loaded.data,
                             ![t].history = loaded.data \o th[t].entry]
         /\ log' = log + loaded.logged
  /\ UNCHANGED <<movies, catalogFile, historyFile, ratingsFile, now, request,
                 io, stage, candidates, pool, picks, result>>

\* self.save_json_list(self.history_file, history); titles_selected = {...}
SaveHistory(t) ==
  /\ th[t].pc = "save"
  /\ historyFile' = save_json_list(historyFile, th[t].history, "ok")
  /\ th' = [th EXCEPT
              ![t].pc = IF TitlesRaise(th[t].selected) THEN "raised"
                        ELSE IF movies = <<>> THEN "flush" ELSE "bump",
              ![t].i = 1,
              ![t].seen = [i \in 1..Len(movies) |-> 0]]
  /\ UNCHANGED <<movies, catalogFile, ratingsFile, log, now, request, io,
                 stage, candidates, pool, picks, result>>

\* one turn of `for movie in self.movies`: the test, and movie.get("popularity", 5)
BumpRead(t) ==
  /\ th[t].pc = "bump"
  /\ LET i == th[t].i
     IN  IF Get(movies[i], "title", None) \in TitlesSelected(th[t].selected)
         THEN th' = [th EXCEPT
                       ![t].pc = "store",
                       ![t].seen[i] =
                         Get(movies[i], "popularity", DefaultPopularity)]
         ELSE th' = [th EXCEPT
                       ![t].pc = IF i = Len(movies) THEN "flush" ELSE "bump",
                       ![t].i = i + 1]
  /\ UNCHANGED <<movies, catalogFile, historyFile, ratingsFile, log, now,
                 request, io, stage, candidates, pool, picks, result>>

\* mutant of StoredPopularity: the increment reads the popularity again
StoredPopularity_Atomic(movie, seen) ==
  Get(movie, "popularity", DefaultPopularity) + 1

\* the value `movie["popularity"] = ... + 1` stores: the value read, plus 1
StoredPopularity(movie, seen) == seen + 1

\* movie["popularity"] = <the value read> + 1
BumpStore(t) ==
  /\ th[t].pc = "store"
  /\ LET i == th[t].i
     IN  /\ movies' =
              [movies EXCEPT
                 ![i].popularity =
                   <<StoredPopularity(movies[i], th[t].seen[i])>>]
         /\ th' = [th EXCEPT
                     ![t].pc = IF i = Len(movies) THEN "flush" ELSE "bump",
                     ![t].i = i + 1]
  /\ UNCHANGED <<catalogFile, historyFile, ratingsFile, log, now, request,
                 io, stage, candidates, pool, picks, result>>

\* self.save_json_list(self.data_file, self.movies); return selected
SaveCatalog(t) ==
  /\ th[t].pc = "flush"
  /\ catalogFile' = save_json_list(catalogFile, movies, "ok")
  /\ th' = [th EXCEPT ![t].pc = "returned"]
  /\ UNCHANGED <<movies, historyFile, ratingsFile, log, now, request, io,
                 stage, candidates, pool, picks, result>>

NextRace ==
  \E t \in Threads :
    \/ Begin(t)
    \/ LoadHistory(t)
    \/ SaveHistory(t)
    \/ BumpRead(t)
    \/ BumpStore(t)
    \/ SaveCatalog(t)

SpecRace == InitRace /\ [][NextRace]_vars

\* calls of rate_movie
MaxRatings == 2

Titles == {<<"B">>, Padded(<<"A">>)}

Stars ==
  {IntStars(-1), IntStars(0), IntStars(1), IntStars(3), IntStars(5),
   IntStars(6), FloatStars(25), FloatStars(5), StrStars, NoStars}

InitRate ==
  Construct({ListFile(<<MovieA>>)}, "ok", {Missing},
            {Missing, Malformed, ListFile(<<>>)})

RateMovie ==
  /\ now < MaxRatings
  /\ \E title \in Titles, stars \in Stars, rd \in ReadOutcomes,
        wr \in WriteOutcomes :
       rate_movie(title, stars, rd, wr)

NextRate == RateMovie

SpecRate == InitRate /\ [][NextRate]_vars

----------------------------------------------------------------------------
(* Claims about one recommend call (Spec) *)

\* a step that is a recommend call which returned
RecommendReturns == now' = now + 1 /\ result'.kind = "return"

\* the catalog record `m` is one of the returned movies
Appears(m, returned) ==
  \E j \in 1..Len(returned) : Unscored(returned[j]) = m

\* the title of `m` is the title of one of the returned movies
TitleAppears(m, returned) ==
  \E j \in 1..Len(returned) :
    Get(returned[j], "title", None) = Get(m, "title", None)

Bumped(before, after) ==
  after = [before EXCEPT
             !.popularity = <<Get(before, "popularity", DefaultPopularity) + 1>>]

\* C1 as claimed: after a recommend call, every catalog movie that appears
\* in the returned list has its previous popularity plus 1 (a missing
\* popularity counting as 5) and every other catalog movie is unchanged.
C1_PopularityOfReturned ==
  [][RecommendReturns =>
       /\ Len(movies') = Len(movies)
       /\ \A i \in 1..Len(movies) :
            IF Appears(movies[i], result'.value)
            THEN Bumped(movies[i], movies'[i])
            ELSE movies'[i] = movies[i]]_vars

\* C1 amended: after a recommend call that returns, every catalog movie
\* whose title is the title of a returned movie (whether or not that record
\* itself was returned) has its previous popularity plus 1 (a missing
\* popularity counting as 5), and every other catalog movie is unchanged; a
\* call that raises changes no catalog movie.
C1_PopularityByTitle ==
  [][now' = now + 1 =>
       /\ Len(movies') = Len(movies)
       /\ \A i \in 1..Len(movies) :
            IF result'.kind = "return" /\ TitleAppears(movies[i], result'.value)
            THEN Bumped(movies[i], movies'[i])
            ELSE movies'[i] = movies[i]]_vars

\* C1 witness: a call returned part of a catalog in which a movie that was
\* not returned shares its title with one that was, and another had no
\* popularity before the call and has 6 now.
C1_Witness ==
  /\ result.kind = "return"
  /\ Len(result.value) = 1
  /\ Len(movies) = 2
  /\ \E i \in 1..2 :
       /\ movies[i].title = result.value[1].title
       /\ movies[i].industry # result.value[1].industry
       /\ movies[i].popularity = <<7>>

\* C3 as claimed: if the catalog holds fewer than top_n movies, recommend
\* returns exactly the whole catalog (each movie with a score), never more.
C3_WholeCatalog ==
  result.kind = "return" /\ Len(movies) < request.top_n =>
    /\ Len(result.value) = Len(movies)
    /\ \A i \in 1..Len(movies) :
         \E j \in 1..Len(result.value) :
           Bumped(Unscored(result.value[j]), movies[i])

\* C3 amended: if the catalog holds fewer than top_n movies, recommend
\* returns exactly the pool, in pool order: the candidates of the first
\* stage that has any (the whole catalog only when that stage keeps every
\* movie), cut to the 10 best scored; each is a catalog movie with a score,
\* and they are never more than the catalog holds.
C3_WholePool ==
  result.kind = "return" /\ Len(movies) < request.top_n =>
    /\ result.value = pool
    /\ Len(pool) =
         (IF Len(candidates) < PoolSize THEN Len(candidates) ELSE PoolSize)
    /\ Len(result.value) <= Len(movies)
    /\ \A j \in 1..Len(result.value) :
         /\ "score" \in DOMAIN result.value[j]
         /\ \E i \in 1..Len(movies) :
              Bumped(Unscored(result.value[j]), movies[i])

\* C3 witness: a catalog of two, fewer than top_n, of which the call
\* returned one, the only candidate of the stage used.
C3_Witness ==
  /\ result.kind = "return"
  /\ Len(movies) = 2
  /\ request.top_n = DefaultTopN
  /\ Len(candidates) = 1
  /\ Len(result.value) = 1

\* the type predicate of a movie-type label, as the specification tabulates it
TypePredicate(m, label) ==
  LET mt == normalize_string(label)
      rating == Get(m, "rating", DefaultRating)
      popularity == Get(m, "popularity", DefaultPopularity)
  IN  /\ mt = top_rated => rating >= 80
      /\ mt = popular => popularity >= 8
      /\ mt = underrated => rating >= 70 /\ popularity <= 6
      /\ mt = new_release => Get(m, "year", DefaultYear) >= 2020
      /\ mt = classic => Get(m, "year", DefaultYear) <= 2005
      /\ StartsWith(mt, short_movie) =>
           Get(m, "duration_minutes", DefaultDuration) < 120

IndustryIs(m, industry) ==
  normalize_string(Get(m, "industry", <<>>)) = normalize_string(industry)

HasGenre(m, genre) == Contains(NormGenres(m), normalize_string(genre))

\* C5 as claimed: for every request, an empty or missing industry or
\* movie_type included, if stage 1 yields a candidate then every returned
\* movie has the requested industry (normalized), has the requested genre
\* (normalized) among its genres and satisfies the type predicate.
C5_StrictResult ==
  result.kind = "return" /\ stage = 1 =>
    \A j \in 1..Len(result.value) :
      /\ IndustryIs(result.value[j], request.industry)
      /\ HasGenre(result.value[j], request.genre)
      /\ TypePredicate(result.value[j], request.movie_type)

\* C5 amended: if stage 1 yields a candidate then every returned movie has
\* the requested genre (normalized) among its genres, satisfies the type
\* predicate and, when the normalized requested industry is not empty, has
\* that industry; an empty or missing industry constrains nothing.
C5_StrictResultUnlessBlank ==
  result.kind = "return" /\ stage = 1 =>
    \A j \in 1..Len(result.value) :
      /\ normalize_string(request.industry) # <<>> =>
           IndustryIs(result.value[j], request.industry)
      /\ HasGenre(result.value[j], request.genre)
      /\ TypePredicate(result.value[j], request.movie_type)

\* C5 witness: a request with industry, genre and type spelled with capitals
\* or blanks, answered from stage 1 out of a catalog that also holds a movie
\* stage 1 rejects.
C5_Witness ==
  /\ result.kind = "return"
  /\ stage = 1
  /\ request.industry = Padded(bollywood)
  /\ request.genre = Cap(drama)
  /\ request.movie_type = Padded(underrated)
  /\ Len(movies) = 2
  /\ Len(result.value) = 1

\* C7 as claimed: recommend never ends in an error; it returns a list of
\* movies, the empty list when the catalog is empty.
C7_NeverRaises ==
  now > 0 =>
    /\ result.kind = "return"
    /\ movies = <<>> => result.value = <<>>

\* the candidates a stage should have, from the catalog and the request alone
ShouldBeCandidates(ms, n, req) ==
  LET ind_ok(m) ==
        normalize_string(req.industry) = <<>> \/ IndustryIs(m, req.industry)
      strict(m) ==
        ind_ok(m) /\ HasGenre(m, req.genre) /\ TypePredicate(m, req.movie_type)
      relaxed(m) == ind_ok(m) /\ HasGenre(m, req.genre)
      genre_only(m) == HasGenre(m, req.genre)
  IN  CASE n = 1 -> SelectSeq(ms, strict)
        [] n = 2 -> SelectSeq(ms, relaxed)
        [] n = 3 -> SelectSeq(ms, genre_only)
        [] OTHER -> ms

\* C9: the candidates are those of the first non-empty stage in the order
\* strict, relaxed, genre-only over the full catalog in catalog order, whole
\* catalog; a later stage is used only when every earlier one is empty, and
\* the candidates are empty only when the catalog is.
C9_FirstNonEmptyStage ==
  [][now' = now + 1 =>
       /\ stage' \in 1..4
       /\ [i \in 1..Len(candidates') |-> Unscored(candidates'[i])]
            = ShouldBeCandidates(movies, stage', request')
       /\ \A n \in 1..(stage' - 1) :
            ShouldBeCandidates(movies, n, request') = <<>>
       /\ stage' < 4 => candidates' # <<>>
       /\ candidates' = <<>> => movies = <<>>]_vars

\* C9 witness: stages 1 and 2 found nothing and stage 3 found two movies.
C9_Witness ==
  stage = 3 /\ Len(candidates) = 2 /\ candidates[1] # candidates[2]

----------------------------------------------------------------------------
(* Claims about sequences of calls and file failures (SpecIO) *)

\* the entries a history file holds; a file that is no JSON list holds none
Entries(file) == IF file.st = "list" THEN file.data ELSE <<>>

\* C2 as claimed: for any prior content of the history file, each recommend
\* call makes the file exactly one entry longer, and the `recommended` list
\* of the new entry equals the list the call returns.
C2_HistoryGrowsByOne ==
  [][now' = now + 1 =>
       /\ historyFile'.st = "list"
       /\ Len(historyFile'.data) = Len(Entries(historyFile)) + 1
       /\ result'.kind = "return" =>
            historyFile'.data[Len(historyFile'.data)].recommended
              = result'.value]_vars

\* C2 amended: each recommend call whose write of the history file succeeds
\* leaves a file holding the entries it read (none from a missing,
\* malformed or non-list file, and none when the read fails) followed by
\* exactly one new entry, whose `recommended` list is the selected list,
\* which is the list the call returns when it returns; a call whose write
\* fails adds no entry (the file stays as it was or is cut short), and a call
\* that raises before the history log leaves the file as it was.
C2_HistoryGrowsWhenWritten ==
  [][now' = now + 1 =>
       LET read == IF io'.hr = "oserror" THEN <<>> ELSE Entries(historyFile)
       IN  CASE io'.hw = "ok" ->
                  /\ historyFile'.st = "list"
                  /\ Len(historyFile'.data) = Len(read) + 1
                  /\ SubSeq(historyFile'.data, 1, Len(read)) = read
                  /\ historyFile'.data[Len(read) + 1].recommended
                       = Selected(pool', picks')
                  /\ result'.kind = "return" =>
                       historyFile'.data[Len(read) + 1].recommended
                         = result'.value
             [] io'.hw = "cut" -> historyFile' = Malformed
             [] OTHER -> historyFile' = historyFile]_vars

\* C2 witness: the second of two calls read the entry the first had written
\* and wrote a second one behind it, holding what it returned.
C2_Witness ==
  /\ now = 2
  /\ io.hr = "ok" /\ io.hw = "ok"
  /\ result.kind = "return"
  /\ request.top_n = 1
  /\ historyFile.st = "list"
  /\ Len(historyFile.data) = 2
  /\ historyFile.data[1].timestamp = 0
  /\ historyFile.data[2].recommended = result.value
  /\ Len(historyFile.data[1].recommended) = 2
  /\ Len(result.value) = 1

\* C6 as claimed: after every recommend call that returns, calls whose file
\* writes fail included, the catalog file holds the in-memory movie list.
C6_FileEqualsMemory ==
  result.kind = "return" => catalogFile = ListFile(movies)

\* C6 amended: after a recommend call that returns and whose write of the
\* catalog file succeeded, the catalog file holds the in-memory movie list;
\* after one whose write failed the file is cut short or, if the call
\* selected any movie, holds something other than the in-memory list, which
\* alone has the new popularity.
C6_FileEqualsMemoryWhenWritten ==
  result.kind = "return" =>
    CASE io.cw = "ok" -> catalogFile = ListFile(movies)
      [] io.cw = "cut" -> catalogFile = Malformed
      [] OTHER -> result.value # <<>> => catalogFile # ListFile(movies)

\* C6 witness: two calls returned, the first failed to write the catalog,
\* the second wrote it, and the file holds both popularity increments.
C6_Witness ==
  /\ now = 2
  /\ result.kind = "return"
  /\ io.cw = "ok"
  /\ log > 0
  /\ Len(movies) = 2
  /\ movies[1].popularity = <<11>>
  /\ movies[2].popularity = <<7>>
  /\ catalogFile = ListFile(movies)

----------------------------------------------------------------------------
(* Claims about rate_movie (SpecRate) *)

IntegerOneToFive(stars) == stars.type = "int" /\ stars.v \in {10, 20, 30, 40, 50}

\* C4, its first half: for every stars value that is not an integer in 1..5
\* (0, 6, -1 and non-integer values included) rate_movie returns the failure
\* indicator without raising and leaves the ratings log unchanged. (The
\* second half: for every integer in 1..5 it returns success and appends
\* exactly one {title, stars, time} entry.)
C4_RejectsAllButOneToFive ==
  [][now' = now + 1 /\ ~ IntegerOneToFive(request'.stars) =>
       result' = Returned(<<FALSE>>) /\ ratingsFile' = ratingsFile]_vars

----------------------------------------------------------------------------
(* Claims about the selection (SpecPool) *)

\* the place of candidate i in a stable sort by score, highest first: behind
\* every candidate that scores more and every earlier one that scores the same
Rank(cs, i) ==
  1 + Cardinality({j \in 1..Len(cs) :
                     \/ cs[j].score > cs[i].score
                     \/ cs[j].score = cs[i].score /\ j < i})

\* C10: for every candidate set and every top_n >= 0, the returned list
\* holds only candidates of the pool (the first 10 candidates after a stable
\* sort by score, highest first), holds no candidate twice, has exactly
\* top_n elements when the pool has more than top_n and is the whole pool in
\* pool order otherwise; no returned movie has a lower score than a
\* candidate left outside the pool.
C10_SelectionFromPool ==
  now > 0 /\ request.top_n >= 0 =>
    /\ Len(pool) =
         (IF Len(candidates) < PoolSize THEN Len(candidates) ELSE PoolSize)
    /\ \A i \in 1..Len(candidates) :
         Rank(candidates, i) <= PoolSize =>
           pool[Rank(candidates, i)] = candidates[i]
    /\ result.kind = "return" =>
         /\ Len(result.value) = Len(picks)
         /\ \A k \in 1..Len(picks) :
              /\ picks[k] \in 1..Len(pool)
              /\ result.value[k] = pool[picks[k]]
              /\ \A l \in 1..Len(picks) : l # k => picks[l] # picks[k]
              /\ \A i \in 1..Len(candidates) :
                   Rank(candidates, i) > PoolSize =>
                     result.value[k].score >= candidates[i].score
         /\ IF Len(pool) > request.top_n
            THEN Len(result.value) = request.top_n
            ELSE result.value = pool

\* C10 witness: eleven candidates, of which the sort moved one ahead of
\* earlier ones and the cut to ten dropped one that is not the last; two
\* were drawn from the pool, the later one first.
C10_Witness ==
  /\ result.kind = "return"
  /\ request.top_n = 2
  /\ Len(candidates) = PoolSize + 1
  /\ Len(pool) = PoolSize
  /\ pool[1] # candidates[1]
  /\ \E i \in 1..PoolSize : Rank(candidates, i) > PoolSize
  /\ Len(result.value) = 2
  /\ picks[1] > picks[2]

----------------------------------------------------------------------------
(* Claims about two calls at once (SpecRace) *)

BothReturned == \A t \in Threads : th[t].pc = "returned"

\* both calls read the history file before either wrote it
BothReadFirst == th[1].loaded = th[2].loaded

\* both calls read the popularity of movie i before either stored it
BothSaw(i) == th[1].seen[i] # 0 /\ th[1].seen[i] = th[2].seen[i]

\* C8: when two recommend calls interleave, an update is lost: if both read
\* the history file before either writes it then, after both return, the
\* file holds what they read and only one of the two new entries; likewise
\* if both read a popularity before either stores it, the popularity ends
\* one higher, not two.
C8_LostUpdate ==
  BothReturned =>
    /\ BothReadFirst =>
         /\ historyFile.st = "list"
         /\ Len(historyFile.data) = Len(th[1].loaded) + 1
         /\ historyFile.data \in {th[1].history, th[2].history}
         /\ th[1].entry # th[2].entry
    /\ \A i \in 1..Len(movies) :
         BothSaw(i) => movies[i].popularity = <<th[1].seen[i] + 1>>

\* C8 witness: both calls returned, both selected the first movie; the
\* history file holds one new entry and the popularity rose by one.
C8_Witness ==
  /\ BothReturned
  /\ BothReadFirst
  /\ Len(historyFile.data) = Len(th[1].loaded) + 1
  /\ BothSaw(1)
  /\ movies[1].popularity = <<th[1].seen[1] + 1>>
  /\ catalogFile = ListFile(movies)

====
